---- MODULE Spec2Model ----
(***************************************************************************)
(* Model of the pipelined round-table orchestrator of chat.py:             *)
(* ChatRoom.start_discussion (the orchestrator thread), the                *)
(* ThreadPoolExecutor(max_workers=2) that runs the pre-generations, the    *)
(* TTS worker thread with its queue.Queue, and the KeyboardInterrupt path. *)
(*                                                                         *)
(* Texts are tuples: << >> is the empty string, <<"[Error:", bot>> is the  *)
(* marker of generate_response_stream, <<"text", g>> is the reply of       *)
(* generation call number g.  A context is the sequence of the formatted   *)
(* lines <<bot, message>> of the last 10 log entries.  The timestamp of a  *)
(* log entry is read nowhere in chat.py and is left out.                   *)
(*                                                                         *)
(* The second program, chat_tui.py, is the Textual application ChatTUI:    *)
(* its message handlers run one at a time on the event loop, and           *)
(* run_discussion_worker is an exclusive async worker that yields to the   *)
(* handlers at its two awaits.  Its state is kept in separate variables;   *)
(* both programs are built from the same configuration (nbots).            *)
(***************************************************************************)
EXTENDS Integers, Sequences, FiniteSets, TLC

\* ------------------------------------------------------------- bounds ---
MaxBots == 2
MaxGens == 5
MaxTuiLog == 4

\* ------------------------------------------------- program constants ---
ContextWindow == 10
MaxWorkers == 2

BotNames == <<"A", "B", "C", "D">>
Moderator == "Moderator"
Topic == <<"Today's discussion topic is:", "X">>
None == << >>
EmptyText == << >>
NoPreviousConversation == << >>
NoContext == <<"no generation">>

VARIABLES
  nbots,                \* len(self.bots)
  tts_enabled,          \* self.tts_enabled
  conversation_history, \* self.conversation_history: entries [bot, message]
  turn_gen,             \* history: the generation call behind each entry (0: none)
  tts_queue,            \* self.tts_queue: the items of the queue.Queue
  unfinished_tasks,     \* self.tts_queue.unfinished_tasks
  tts_active,           \* self.tts_active
  tts_thread,           \* position of the tts_worker thread
  cur_task,             \* tts_worker's local task
  narrating,            \* the espeak-ng processes that are alive (by task)
  spoken,               \* history: the tasks passed to speak_text, in order
  enqueued,             \* history: the tasks put on tts_queue, in order
  tts_errors,           \* the number of "[TTS Error: ...]" lines tts_worker printed
  pc,                   \* position of the orchestrator in start_discussion
  exc,                  \* the exception being propagated in the orchestrator
  bot_index,            \* start_discussion's local bot_index
  future_response,      \* start_discussion's local future_response (0: None)
  response,             \* start_discussion's local response
  response_gen,         \* history: the generation call that returned response
  gens,                 \* every generate_bot_response call started so far
  work_queue,           \* the executor's queue of submitted, unstarted calls
  iterations            \* history: completed iterations of the while loop

\* chat_tui.py, class ChatTUI
VARIABLES
  topic,                \* self.topic
  tui_history,          \* self.conversation_history: entries [bot, message]
  tui_turn_ctx,         \* history: the context behind each entry (NoContext: none)
  tui_log_file,         \* the records written to self.log_file_path, in order
  tui_bot_index,        \* self.bot_index
  is_running,           \* self._is_running
  is_paused,            \* self._is_paused
  input_value,          \* the value of the #topic-input widget
  input_disabled,       \* the disabled flag of the #topic-input widget
  workers,              \* the run_discussion_worker coroutines that are alive:
                        \* [pc, bot, context], position and the locals bot (name), context
  tui_app               \* the application: running, exiting (exit() called), exited

tuiVars == <<topic, tui_history, tui_turn_ctx, tui_log_file, tui_bot_index,
             is_running, is_paused, input_value, input_disabled, workers,
             tui_app>>

vars == <<nbots, tts_enabled, conversation_history, turn_gen, tts_queue,
          unfinished_tasks, tts_active, tts_thread, cur_task, narrating,
          spoken, enqueued, tts_errors, pc, exc, bot_index, future_response, response,
          response_gen, gens, work_queue, iterations, tuiVars>>

ttsVars == <<tts_queue, unfinished_tasks, tts_active, tts_thread, cur_task,
             narrating, spoken, enqueued, tts_errors>>
loopVars == <<bot_index, future_response, response, response_gen, iterations>>
logVars == <<conversation_history, turn_gen>>
cfgVars == <<nbots, tts_enabled>>
chatVars == <<tts_enabled, logVars, loopVars, ttsVars, pc, exc, gens, work_queue>>

\* ------------------------------------------------------------ helpers ---
Min(a, b) == IF a < b THEN a ELSE b

\* self.bots
bots == SubSeq(BotNames, 1, nbots)

StartsWithErrorNever(text) == FALSE

\* text.startswith("[Error:")
StartsWithError(text) == Len(text) > 0 /\ text[1] = "[Error:"

\* start_discussion: `response and not response.startswith("[Error:")`
IsSpeakable(text) == text # EmptyText /\ ~StartsWithError(text)

\* queue_tts: `self.tts_enabled and text and not text.startswith("[Error:")`
QueueTtsAccepts(text) == tts_enabled /\ text # EmptyText /\ ~StartsWithError(text)

\* the values generate_response_stream can return for call g of bot b
ErrorMarker(b) == <<"[Error:", b>>
ReplyText(g) == <<"text", g>>
Replies(b, g) == {ReplyText(g), EmptyText, ErrorMarker(b)}

\* conversation_history[-10:]
LastEntries(h) == SubSeq(h, Len(h) - Min(Len(h), ContextWindow) + 1, Len(h))

get_conversation_context_stale(h) ==
  IF Len(h) <= 1 THEN NoPreviousConversation
  ELSE [i \in 1..Len(LastEntries(SubSeq(h, 1, Len(h) - 1))) |->
          <<LastEntries(SubSeq(h, 1, Len(h) - 1))[i].bot,
            LastEntries(SubSeq(h, 1, Len(h) - 1))[i].message>>]

get_conversation_context(h) ==
  IF h = << >> THEN NoPreviousConversation
  ELSE [i \in 1..Len(LastEntries(h)) |->
          <<LastEntries(h)[i].bot, LastEntries(h)[i].message>>]

add_to_history_front(h, bot_name, message) ==
  <<[bot |-> bot_name, message |-> message]>> \o h

add_to_history(h, bot_name, message) ==
  Append(h, [bot |-> bot_name, message |-> message])

NextBotIndexStuck(i, n) == i

\* next_bot_index = (bot_index + 1) % len(self.bots)
NextBotIndex(i, n) == (i + 1) % n

\* a generate_bot_response call: who it is for, the context it was given
\* and the length of the log that context was computed from
NewGen(b, h, via, st) ==
  [bot |-> b, context |-> get_conversation_context(h), log_len |-> Len(h),
   via |-> via, state |-> st, result |-> EmptyText]

Running == {g \in 1..Len(gens) : gens[g].state = "running" /\ gens[g].via = "executor"}

\* generation calls started and not yet returned
Outstanding == {g \in 1..Len(gens) : gens[g].state \in {"queued", "running"}}

\* ---------------------------------------------------------------- Init ---
Init ==
  /\ nbots \in 0..MaxBots
  /\ tts_enabled \in BOOLEAN
  /\ conversation_history = << >>
  /\ turn_gen = << >>
  /\ tts_queue = << >>
  /\ unfinished_tasks = 0
  /\ tts_active = FALSE
  /\ tts_thread = "none"
  /\ cur_task = None
  /\ narrating = {}
  /\ spoken = << >>
  /\ enqueued = << >>
  /\ tts_errors = 0
  /\ pc = "add_topic"
  /\ exc = "none"
  /\ bot_index = 0
  /\ future_response = 0
  /\ response = EmptyText
  /\ response_gen = 0
  /\ gens = << >>
  /\ work_queue = << >>
  /\ iterations = 0
  /\ topic = ""
  /\ tui_history = << >>
  /\ tui_turn_ctx = << >>
  /\ tui_log_file = << >>
  /\ tui_bot_index = 0
  /\ is_running = FALSE
  /\ is_paused = FALSE
  /\ input_value = ""
  /\ input_disabled = FALSE
  /\ workers = << >>
  /\ tui_app = "running"

\* ------------------------------------------------ the orchestrator ---
\* self.add_to_history("Moderator", f"Today's discussion topic is: {topic}")
AddTopic ==
  /\ pc = "add_topic"
  /\ conversation_history' = add_to_history(conversation_history, Moderator, Topic)
  /\ turn_gen' = Append(turn_gen, 0)
  /\ pc' = "start_tts"
  /\ UNCHANGED <<tuiVars, cfgVars, ttsVars, loopVars, exc, gens, work_queue>>

\* self.start_tts_thread()
StartTtsThread ==
  /\ pc = "start_tts"
  /\ IF tts_enabled /\ ~tts_active
       THEN tts_active' = TRUE /\ tts_thread' = "check"
       ELSE UNCHANGED <<tts_active, tts_thread>>
  /\ pc' = "loop_top"
  /\ UNCHANGED <<tuiVars, cfgVars, logVars, loopVars, exc, gens, work_queue,
                 tts_queue, unfinished_tasks, cur_task, narrating, spoken, enqueued, tts_errors>>

\* bot = self.bots[bot_index] with no bots configured: IndexError leaves the
\* with block and the try block
NoBots ==
  /\ pc = "loop_top"
  /\ nbots = 0
  /\ exc' = "IndexError"
  /\ pc' = "executor_exit"
  /\ UNCHANGED <<tuiVars, cfgVars, logVars, loopVars, ttsVars, gens, work_queue>>

\* top of the while loop: with a pre-generated response wait for it,
\* otherwise read the context and generate on this thread (an iteration
\* starts at most two generation calls; the model stops at MaxGens calls)
LoopTop ==
  /\ pc = "loop_top"
  /\ nbots > 0
  /\ Len(gens) + 2 <= MaxGens
  /\ IF future_response # 0
       THEN /\ pc' = "wait_future"
            /\ UNCHANGED gens
       ELSE /\ gens' = Append(gens, NewGen(bots[bot_index + 1], conversation_history,
                                           "sync", "running"))
            /\ pc' = "gen_sync"
  /\ UNCHANGED <<tuiVars, cfgVars, logVars, loopVars, ttsVars, exc, work_queue>>

\* future_response.result(timeout=1) returns
FutureResult ==
  /\ pc = "wait_future"
  /\ gens[future_response].state = "done"
  /\ response' = gens[future_response].result
  /\ response_gen' = future_response
  /\ pc' = "append"
  /\ UNCHANGED <<tuiVars, cfgVars, logVars, ttsVars, exc, gens, work_queue,
                 bot_index, future_response, iterations>>

\* future_response.result(timeout=1) raises TimeoutError: read the context
\* and generate on this thread; the future is left as it is
FutureTimeout ==
  /\ pc = "wait_future"
  /\ gens[future_response].state # "done"
  /\ gens' = Append(gens, NewGen(bots[bot_index + 1], conversation_history,
                                 "sync", "running"))
  /\ pc' = "gen_sync"
  /\ UNCHANGED <<tuiVars, cfgVars, logVars, loopVars, ttsVars, exc, work_queue>>

\* self.generate_bot_response(bot, context, timeout) returns on this thread
SyncGenerateReturns ==
  /\ pc = "gen_sync"
  /\ \E r \in Replies(gens[Len(gens)].bot, Len(gens)) :
       /\ gens' = [gens EXCEPT ![Len(gens)].state = "done", ![Len(gens)].result = r]
       /\ response' = r
  /\ response_gen' = Len(gens)
  /\ pc' = "append"
  /\ UNCHANGED <<tuiVars, cfgVars, logVars, ttsVars, exc, work_queue,
                 bot_index, future_response, iterations>>

\* the statement order of the loop body after the generation: append the
\* turn, enqueue its narration, submit the next generation, wait for the
\* narration, advance the index
LoopStepAfterWaitFirst(p) ==
  CASE p = "append" -> "queue_tts"
    [] p = "queue_tts" -> "wait_tts"
    [] p = "wait_tts" -> "submit"
    [] p = "submit" -> "advance"

LoopStepAfter(p) ==
  CASE p = "append" -> "queue_tts"
    [] p = "queue_tts" -> "submit"
    [] p = "submit" -> "wait_tts"
    [] p = "wait_tts" -> "advance"

\* self.add_to_history(bot.name, response)
AddToHistory ==
  /\ pc = "append"
  /\ conversation_history' = add_to_history(conversation_history, bots[bot_index + 1], response)
  /\ turn_gen' = Append(turn_gen, response_gen)
  /\ pc' = LoopStepAfter("append")
  /\ UNCHANGED <<tuiVars, cfgVars, ttsVars, loopVars, exc, gens, work_queue>>

\* if response and not response.startswith("[Error:"): self.queue_tts(...)
\* queue_tts: if self.tts_enabled and text and not text.startswith("[Error:"): put
\* the method has no raise statement and reads neither tts_active nor any
\* closed flag: raised is what the call raises
queue_tts(q, unf, text, bot_name) ==
  IF QueueTtsAccepts(text)
    THEN [tts_queue |-> Append(q, <<text, bot_name>>),
          unfinished_tasks |-> unf + 1, raised |-> "none"]
    ELSE [tts_queue |-> q, unfinished_tasks |-> unf, raised |-> "none"]

QueueTts ==
  /\ pc = "queue_tts"
  /\ IF IsSpeakable(response)
       THEN LET after == queue_tts(tts_queue, unfinished_tasks, response,
                                   bots[bot_index + 1])
            IN /\ tts_queue' = after.tts_queue
               /\ unfinished_tasks' = after.unfinished_tasks
               /\ enqueued' = IF after.tts_queue = tts_queue
                                THEN enqueued
                                ELSE Append(enqueued, <<response, bots[bot_index + 1]>>)
       ELSE UNCHANGED <<tts_queue, unfinished_tasks, enqueued>>
  /\ pc' = LoopStepAfter("queue_tts")
  /\ UNCHANGED <<tuiVars, cfgVars, logVars, loopVars, exc, gens, work_queue,
                 tts_active, tts_thread, cur_task, narrating, spoken, tts_errors>>

\* next_context = self.get_conversation_context()
\* future_response = executor.submit(self.generate_bot_response, next_bot, ...)
next_bot_current(i, n) == bots[i + 1]

\* next_bot = self.bots[next_bot_index]
next_bot(i, n) == bots[NextBotIndex(i, n) + 1]

SubmitNext ==
  /\ pc = "submit"
  /\ gens' = Append(gens, NewGen(next_bot(bot_index, nbots),
                                 conversation_history, "executor", "queued"))
  /\ work_queue' = Append(work_queue, Len(gens) + 1)
  /\ future_response' = Len(gens) + 1
  /\ pc' = LoopStepAfter("submit")
  /\ UNCHANGED <<tuiVars, cfgVars, logVars, ttsVars, exc, bot_index, response,
                 response_gen, iterations>>

wait_for_tts_completion_no_join == TRUE

\* wait_for_tts_completion: if self.tts_enabled: self.tts_queue.join()
wait_for_tts_completion == tts_enabled => unfinished_tasks = 0

WaitForTtsCompletion ==
  /\ pc = "wait_tts"
  /\ wait_for_tts_completion
  /\ pc' = LoopStepAfter("wait_tts")
  /\ UNCHANGED <<tuiVars, cfgVars, logVars, loopVars, ttsVars, exc, gens, work_queue>>

\* bot_index = next_bot_index; time.sleep(0.2)
Advance ==
  /\ pc = "advance"
  /\ bot_index' = NextBotIndex(bot_index, nbots)
  /\ iterations' = iterations + 1
  /\ pc' = "loop_top"
  /\ UNCHANGED <<tuiVars, cfgVars, logVars, ttsVars, exc, gens, work_queue,
                 future_response, response, response_gen>>

KeyboardInterruptIgnored(p) == p

\* where a KeyboardInterrupt raised at position p takes the orchestrator:
\* before the try it leaves start_discussion uncaught, inside the with block
\* it first runs the executor's __exit__
KeyboardInterruptTarget(p) ==
  IF p \in {"add_topic", "start_tts"} THEN "uncaught" ELSE "executor_exit"

\* Ctrl+C: KeyboardInterrupt is raised in the orchestrator thread, wherever
\* it is; a generation running on this thread is abandoned
KeyboardInterrupt ==
  /\ exc = "none"
  /\ pc \in {"add_topic", "start_tts", "loop_top", "wait_future", "gen_sync",
             "append", "queue_tts", "submit", "wait_tts", "advance"}
  /\ exc' = "KeyboardInterrupt"
  /\ pc' = KeyboardInterruptTarget(pc)
  /\ IF pc = "gen_sync" /\ pc' # pc
       THEN gens' = [gens EXCEPT ![Len(gens)].state = "interrupted"]
       ELSE UNCHANGED gens
  /\ UNCHANGED <<tuiVars, cfgVars, logVars, loopVars, ttsVars, work_queue>>

\* ThreadPoolExecutor.__exit__: shutdown(wait=True) joins the worker
\* threads, which first run every call still in the work queue
ExecutorExit ==
  /\ pc = "executor_exit"
  /\ work_queue = << >>
  /\ Running = {}
  /\ pc' = "finally"
  /\ UNCHANGED <<tuiVars, cfgVars, logVars, loopVars, ttsVars, exc, gens, work_queue>>

\* stop_tts_thread: if self.tts_active: tts_active = False; put(None)
stop_tts_thread_unguarded(active, q, unf) ==
  [tts_active |-> FALSE, tts_queue |-> Append(q, None), unfinished_tasks |-> unf + 1]

stop_tts_thread(active, q, unf) ==
  IF active
    THEN [tts_active |-> FALSE, tts_queue |-> Append(q, None),
          unfinished_tasks |-> unf + 1]
    ELSE [tts_active |-> active, tts_queue |-> q, unfinished_tasks |-> unf]

\* finally: self.stop_tts_thread() up to the join
StopTtsThread ==
  /\ pc = "finally"
  /\ LET after == stop_tts_thread(tts_active, tts_queue, unfinished_tasks)
     IN /\ tts_active' = after.tts_active
        /\ tts_queue' = after.tts_queue
        /\ unfinished_tasks' = after.unfinished_tasks
  /\ pc' = IF tts_active THEN "join_tts" ELSE "done"
  /\ UNCHANGED <<tuiVars, cfgVars, logVars, loopVars, exc, gens, work_queue,
                 tts_thread, cur_task, narrating, spoken, enqueued, tts_errors>>

\* self.tts_thread.join(timeout=5) returns, the thread exited or not;
\* print("Goodbye!")
JoinTtsThread ==
  /\ pc = "join_tts"
  /\ pc' = "done"
  /\ UNCHANGED <<tuiVars, cfgVars, logVars, loopVars, ttsVars, exc, gens, work_queue>>

Orchestrator ==
  \/ AddTopic \/ StartTtsThread \/ NoBots \/ LoopTop \/ FutureResult
  \/ FutureTimeout \/ SyncGenerateReturns \/ AddToHistory \/ QueueTts
  \/ SubmitNext \/ WaitForTtsCompletion \/ Advance \/ ExecutorExit
  \/ StopTtsThread \/ JoinTtsThread

\* ----------------------------------------- the executor's workers ---
\* a worker thread of the pool takes the oldest submitted call and runs it
ExecutorWorkerStart ==
  /\ work_queue # << >>
  /\ Cardinality(Running) < MaxWorkers
  /\ gens' = [gens EXCEPT ![Head(work_queue)].state = "running"]
  /\ work_queue' = Tail(work_queue)
  /\ UNCHANGED <<tuiVars, cfgVars, logVars, loopVars, ttsVars, pc, exc>>

\* generate_bot_response returns on a worker thread: the future is done
ExecutorWorkerFinish ==
  \E g \in Running :
    \E r \in Replies(gens[g].bot, g) :
      /\ gens' = [gens EXCEPT ![g].state = "done", ![g].result = r]
      /\ UNCHANGED <<tuiVars, cfgVars, logVars, loopVars, ttsVars, pc, exc, work_queue>>

\* ------------------------------------------------- the TTS worker ---
QueueGetKeeps(q) == q

\* what queue.Queue.get leaves in the queue
QueueGet(q) == Tail(q)

SubprocessRunDetached(task, alive) == TRUE

\* subprocess.run(cmd, capture_output=True) returns when espeak-ng has exited
SubprocessRunReturns(task, alive) == task \notin alive

\* while self.tts_active:
TtsWorkerCheck ==
  /\ tts_thread = "check"
  /\ tts_thread' = IF tts_active THEN "get" ELSE "exited"
  /\ UNCHANGED <<tuiVars, cfgVars, logVars, loopVars, pc, exc, gens, work_queue, tts_queue,
                 unfinished_tasks, tts_active, cur_task, narrating, spoken, enqueued, tts_errors>>

\* self.tts_queue.get(timeout=1) raises queue.Empty: continue
TtsWorkerGetEmpty ==
  /\ tts_thread = "get"
  /\ tts_queue = << >>
  /\ tts_thread' = "check"
  /\ UNCHANGED <<tuiVars, cfgVars, logVars, loopVars, pc, exc, gens, work_queue, tts_queue,
                 unfinished_tasks, tts_active, cur_task, narrating, spoken, enqueued, tts_errors>>

\* task = self.tts_queue.get(timeout=1); None breaks the loop, anything else
\* is passed to speak_text
TtsWorkerGet ==
  /\ tts_thread = "get"
  /\ tts_queue # << >>
  /\ tts_queue' = QueueGet(tts_queue)
  /\ IF Head(tts_queue) = None
       THEN /\ tts_thread' = "exited"
            /\ UNCHANGED <<cur_task, spoken>>
       ELSE /\ tts_thread' = "speak"
            /\ cur_task' = Head(tts_queue)
            /\ spoken' = Append(spoken, Head(tts_queue))
  /\ UNCHANGED <<tuiVars, cfgVars, logVars, loopVars, pc, exc, gens, work_queue,
                 unfinished_tasks, tts_active, narrating, enqueued, tts_errors>>

\* speak_text: subprocess.run starts espeak-ng
SpeakTextStarts ==
  /\ tts_thread = "speak"
  /\ narrating' = narrating \cup {cur_task}
  /\ tts_thread' = "speaking"
  /\ UNCHANGED <<tuiVars, cfgVars, logVars, loopVars, pc, exc, gens, work_queue, tts_queue,
                 unfinished_tasks, tts_active, cur_task, spoken, enqueued, tts_errors>>

ExceptTaskDoneMissing(n) == n

\* except Exception: ... self.tts_queue.task_done()
ExceptTaskDone(n) == n - 1

\* speak_text raises (espeak-ng cannot be started): except Exception prints
\* and calls task_done
SpeakTextRaises ==
  /\ tts_thread = "speak"
  /\ tts_errors' = tts_errors + 1
  /\ unfinished_tasks' = ExceptTaskDone(unfinished_tasks)
  /\ tts_thread' = "check"
  /\ UNCHANGED <<tuiVars, cfgVars, logVars, loopVars, pc, exc, gens, work_queue, tts_queue,
                 tts_active, cur_task, narrating, spoken, enqueued>>

\* an espeak-ng process finishes speaking and exits
NarrationEnds ==
  \E t \in narrating :
    /\ narrating' = narrating \ {t}
    /\ UNCHANGED <<tuiVars, cfgVars, logVars, loopVars, pc, exc, gens, work_queue, tts_queue,
                   unfinished_tasks, tts_active, tts_thread, cur_task, spoken, enqueued, tts_errors>>

TaskDoneMissing(n) == n

\* self.tts_queue.task_done() after speak_text
TaskDone(n) == n - 1

\* speak_text returns; self.tts_queue.task_done()
SpeakTextReturns ==
  /\ tts_thread = "speaking"
  /\ SubprocessRunReturns(cur_task, narrating)
  /\ unfinished_tasks' = TaskDone(unfinished_tasks)
  /\ tts_thread' = "check"
  /\ UNCHANGED <<tuiVars, cfgVars, logVars, loopVars, pc, exc, gens, work_queue, tts_queue,
                 tts_active, cur_task, narrating, spoken, enqueued, tts_errors>>

\* ------------------------------------------------- specification ---
\* the threads of the ThreadPoolExecutor
Executor == ExecutorWorkerStart \/ ExecutorWorkerFinish

\* the tts_worker thread and the espeak-ng processes it starts
TtsWorker ==
  \/ TtsWorkerCheck \/ TtsWorkerGetEmpty \/ TtsWorkerGet \/ SpeakTextStarts
  \/ SpeakTextRaises \/ NarrationEnds \/ SpeakTextReturns

Next == Orchestrator \/ KeyboardInterrupt \/ Executor \/ TtsWorker

Spec == Init /\ [][Next]_vars

\* the program left to run without Ctrl+C, every thread scheduled fairly,
\* every generation call and every espeak-ng process returning in the end
NextNoInterrupt == Orchestrator \/ Executor \/ TtsWorker

TtsThread ==
  \/ TtsWorkerCheck \/ TtsWorkerGetEmpty \/ TtsWorkerGet \/ SpeakTextStarts
  \/ SpeakTextRaises \/ SpeakTextReturns

FairSpec ==
  /\ Init
  /\ [][NextNoInterrupt]_vars
  /\ WF_vars(Orchestrator)
  /\ WF_vars(ExecutorWorkerStart)
  /\ WF_vars(ExecutorWorkerFinish)
  /\ WF_vars(TtsThread)
  /\ WF_vars(NarrationEnds)

TypeOK ==
  /\ nbots \in 0..MaxBots
  /\ unfinished_tasks \in 0..(MaxGens + 1)
  /\ Len(conversation_history) = Len(turn_gen)
  /\ Len(gens) <= MaxGens
  /\ Cardinality(Running) <= MaxWorkers

\* ------------------------------------------------------ chat_tui.py ---
\* what the user can have typed into #topic-input; .strip() of it
TuiInputs == {" ", "X", "Y"}
Strip(v) == IF v = " " THEN "" ELSE v

TopicMessage(t) == <<"Today's discussion topic is:", t>>
UpdateMessage(t) == <<"Let's expand our discussion to also consider:", t>>

\* the values generate_response_async can return for the g-th turn of bot b:
\* the stripped reply of the model, or the error marker
TuiReplies(b, g) == {ReplyText(g), ErrorMarker(b)}

BotTurns(h) == Cardinality({p \in 1..Len(h) : h[p].bot # Moderator})

\* ChatTUI.get_conversation_context
tui_get_conversation_context(h) ==
  IF h = << >> THEN NoPreviousConversation
  ELSE [i \in 1..Len(LastEntries(h)) |->
          <<LastEntries(h)[i].bot, LastEntries(h)[i].message>>]

\* ChatTUI.log_message: one record appended to the session file
log_message(f, bot_name, message, is_topic) ==
  IF is_topic
    THEN Append(f, <<"Session Started", message>>)
    ELSE Append(f, <<"message", bot_name, message>>)

tui_add_to_history_logs_all(h, f, bot_name, message) ==
  [conversation_history |-> Append(h, [bot |-> bot_name, message |-> message]),
   log_file |-> log_message(f, bot_name, message, FALSE)]

\* ChatTUI.add_to_history: the append, then the log record unless Moderator
tui_add_to_history(h, f, bot_name, message) ==
  [conversation_history |-> Append(h, [bot |-> bot_name, message |-> message]),
   log_file |-> IF bot_name # Moderator
                  THEN log_message(f, bot_name, message, FALSE)
                  ELSE f]

NewWorker == [pc |-> "start", bot |-> "", context |-> NoContext]
IsFailed(w) == w.pc = "failed"
Remove(seq, i) == SubSeq(seq, 1, i - 1) \o SubSeq(seq, i + 1, Len(seq))

run_discussion_worker_not_exclusive ==
  workers' = Append(workers, NewWorker)

\* self.run_discussion_worker(): @work(exclusive=True) cancels the worker
\* that is there and creates a new one, which has not run yet
run_discussion_worker ==
  workers' = <<NewWorker>>

start_discussion_keeps_paused(t) ==
  /\ is_running' = TRUE
  /\ UNCHANGED is_paused
  /\ IF tui_history = << >>
       THEN LET after == tui_add_to_history(tui_history,
                           log_message(tui_log_file, "", t, TRUE),
                           Moderator, TopicMessage(t))
            IN /\ tui_history' = after.conversation_history
               /\ tui_log_file' = after.log_file
               /\ tui_turn_ctx' = Append(tui_turn_ctx, NoContext)
       ELSE UNCHANGED <<tui_history, tui_log_file, tui_turn_ctx>>
  /\ run_discussion_worker

\* ChatTUI.start_discussion with self.topic = t
start_discussion(t) ==
  /\ is_running' = TRUE
  /\ is_paused' = FALSE
  /\ IF tui_history = << >>
       THEN LET after == tui_add_to_history(tui_history,
                           log_message(tui_log_file, "", t, TRUE),
                           Moderator, TopicMessage(t))
            IN /\ tui_history' = after.conversation_history
               /\ tui_log_file' = after.log_file
               /\ tui_turn_ctx' = Append(tui_turn_ctx, NoContext)
       ELSE UNCHANGED <<tui_history, tui_log_file, tui_turn_ctx>>
  /\ run_discussion_worker

\* ChatTUI.toggle_discussion
toggle_discussion ==
  IF ~is_running /\ ~is_paused
    THEN IF Strip(input_value) # ""
           THEN /\ topic' = Strip(input_value)
                /\ input_disabled' = TRUE
                /\ start_discussion(Strip(input_value))
                /\ UNCHANGED <<input_value, tui_bot_index, tui_app>>
           ELSE UNCHANGED tuiVars
    ELSE IF is_running
           THEN /\ is_running' = FALSE
                /\ is_paused' = FALSE
                /\ input_disabled' = FALSE
                /\ UNCHANGED <<topic, tui_history, tui_turn_ctx, tui_log_file,
                               tui_bot_index, input_value, workers, tui_app>>
           ELSE UNCHANGED tuiVars

\* ChatTUI.add_topic_update
add_topic_update ==
  IF Strip(input_value) # ""
    THEN LET after == tui_add_to_history(tui_history, tui_log_file, Moderator,
                                         UpdateMessage(Strip(input_value)))
         IN /\ tui_history' = after.conversation_history
            /\ tui_log_file' = Append(after.log_file,
                                      <<"TOPIC UPDATE", Strip(input_value)>>)
            /\ tui_turn_ctx' = Append(tui_turn_ctx, NoContext)
            /\ input_value' = ""
            /\ input_disabled' = TRUE
            /\ UNCHANGED <<topic, tui_bot_index, is_running, is_paused, workers, tui_app>>
    ELSE UNCHANGED tuiVars

\* the user edits the input field
TypeInput ==
  /\ tui_app = "running"
  /\ ~input_disabled
  /\ \E text \in TuiInputs \ {input_value} : input_value' = text
  /\ UNCHANGED <<topic, tui_history, tui_turn_ctx, tui_log_file, tui_bot_index,
                 is_running, is_paused, input_disabled, workers, tui_app>>
  /\ UNCHANGED <<nbots, chatVars>>

\* on_button_pressed
ButtonPressed ==
  /\ tui_app = "running"
  /\ toggle_discussion
  /\ UNCHANGED <<nbots, chatVars>>

\* on_input_submitted: Enter in the input field
InputSubmitted ==
  /\ tui_app = "running"
  /\ ~input_disabled
  /\ (is_paused /\ Strip(input_value) # "") => Len(tui_history) < MaxTuiLog
  /\ IF is_paused
       THEN add_topic_update
       ELSE IF ~is_running THEN toggle_discussion ELSE UNCHANGED tuiVars
  /\ UNCHANGED <<nbots, chatVars>>

\* action_pause_resume: key p
ActionPauseResume ==
  /\ tui_app = "running"
  /\ IF topic # ""
       THEN IF is_running
              THEN /\ is_running' = FALSE
                   /\ is_paused' = TRUE
                   /\ input_disabled' = FALSE
                   /\ input_value' = ""
                   /\ UNCHANGED <<topic, tui_history, tui_turn_ctx, tui_log_file,
                                  tui_bot_index, workers, tui_app>>
              ELSE /\ start_discussion(topic)
                   /\ UNCHANGED <<topic, tui_bot_index, input_value,
                                  input_disabled, tui_app>>
       ELSE UNCHANGED tuiVars
  /\ UNCHANGED <<nbots, chatVars>>

\* action_quit: keys q, ctrl+c
ActionQuit ==
  /\ tui_app = "running"
  /\ IF is_running
       THEN is_running' = FALSE /\ is_paused' = FALSE
       ELSE UNCHANGED <<is_running, is_paused>>
  /\ tui_app' = "exiting"
  /\ UNCHANGED <<topic, tui_history, tui_turn_ctx, tui_log_file, tui_bot_index,
                 input_value, input_disabled, workers>>
  /\ UNCHANGED <<nbots, chatVars>>

\* the application closes after exit(): its workers are cancelled
AppShutdown ==
  /\ tui_app = "exiting"
  /\ tui_app' = "exited"
  /\ workers' = SelectSeq(workers, IsFailed)
  /\ UNCHANGED <<topic, tui_history, tui_turn_ctx, tui_log_file, tui_bot_index,
                 is_running, is_paused, input_value, input_disabled>>
  /\ UNCHANGED <<nbots, chatVars>>

\* run_discussion_worker from its start, or from the return of
\* asyncio.sleep(1), to the await of generate_response_async:
\* `if not self._is_running: break`, `while self._is_running`,
\* bot = self.bots[self.bot_index], context = self.get_conversation_context()
WorkerLoopTopOf(w) ==
  IF ~is_running
    THEN /\ workers' = Remove(workers, w)
         /\ UNCHANGED tui_app
    ELSE IF tui_bot_index >= nbots
           THEN /\ workers' = [workers EXCEPT ![w] = [pc |-> "failed", bot |-> "",
                                                      context |-> NoContext]]
                /\ tui_app' = "exiting"
           ELSE /\ workers' = [workers EXCEPT ![w] =
                                 [pc |-> "generating", bot |-> bots[tui_bot_index + 1],
                                  context |-> tui_get_conversation_context(tui_history)]]
                /\ UNCHANGED tui_app

WorkerLoopTop ==
  /\ tui_app \in {"running", "exiting"}
  /\ \E w \in 1..Len(workers) :
       /\ workers[w].pc \in {"start", "sleeping"}
       /\ WorkerLoopTopOf(w)
  /\ (is_running /\ nbots > 0) => Len(tui_history) < MaxTuiLog
  /\ UNCHANGED <<topic, tui_history, tui_turn_ctx, tui_log_file, tui_bot_index,
                 is_running, is_paused, input_value, input_disabled>>
  /\ UNCHANGED <<nbots, chatVars>>

\* generate_response_async returns: self.add_to_history(bot.name, response),
\* self.bot_index = (self.bot_index + 1) % len(self.bots), up to the sleep
WorkerGenerateReturns ==
  /\ tui_app \in {"running", "exiting"}
  /\ \E w \in 1..Len(workers) :
       /\ workers[w].pc = "generating"
       /\ \E r \in TuiReplies(workers[w].bot, BotTurns(tui_history) + 1) :
            LET after == tui_add_to_history(tui_history, tui_log_file,
                                            workers[w].bot, r)
            IN /\ tui_history' = after.conversation_history
               /\ tui_log_file' = after.log_file
       /\ tui_turn_ctx' = Append(tui_turn_ctx, workers[w].context)
       /\ workers' = [workers EXCEPT ![w].pc = "sleeping"]
  /\ tui_bot_index' = (tui_bot_index + 1) % nbots
  /\ UNCHANGED <<topic, is_running, is_paused, input_value, input_disabled,
                 tui_app>>
  /\ UNCHANGED <<nbots, chatVars>>

Handlers ==
  \/ TypeInput \/ ButtonPressed \/ InputSubmitted \/ ActionPauseResume
  \/ ActionQuit \/ AppShutdown

DiscussionWorker == WorkerLoopTop \/ WorkerGenerateReturns

TuiNext == Handlers \/ DiscussionWorker

\* chat_tui.py has no narration
TuiInit == Init /\ ~tts_enabled

TuiSpec == TuiInit /\ [][TuiNext]_vars

TuiTypeOK ==
  /\ Len(tui_history) = Len(tui_turn_ctx)
  /\ Len(tui_history) <= MaxTuiLog + 1
  /\ nbots > 0 => tui_bot_index \in 0..(nbots - 1)
  /\ topic \in {Strip(v) : v \in TuiInputs}

\* ------------------------------------------------------- claims ---
Texts(tasks) == [i \in 1..Len(tasks) |-> tasks[i][1]]
Messages(h) == [i \in 1..Len(h) |-> h[i].message]
Line(entry) == <<entry.bot, entry.message>>
ModeratorTurn == [bot |-> Moderator, message |-> Topic]
Interrupted == exc = "KeyboardInterrupt"

RECURSIVE IsSubseq(_, _)
IsSubseq(s, t) ==
  IF s = << >> THEN TRUE
  ELSE IF t = << >> THEN FALSE
  ELSE IF Head(s) = Head(t) THEN IsSubseq(Tail(s), Tail(t))
  ELSE IsSubseq(s, Tail(t))

\* C1: at every instant at most one generation call has been started and
\* has not returned, counting the calls running on the executor, the calls
\* queued in it and the call made on the orchestrator thread.
C1_AtMostOneOutstanding == Cardinality(Outstanding) <= 1

\* C2: the context given to the generation call behind the bot turn at log
\* position p was computed from the log of the p-1 entries before it: it
\* ends with the line of the turn just before, and its lines are the lines
\* of the turns that end there, none of a later turn.
C2_ContextIsPriorLog ==
  \A p \in 2..Len(conversation_history) :
    LET g == gens[turn_gen[p]]
        n == Len(g.context)
    IN /\ g.log_len = p - 1
       /\ n >= 1
       /\ n <= p - 1
       /\ g.context[n] = Line(conversation_history[p - 1])
       /\ \A j \in 1..n : g.context[j] = Line(conversation_history[p - 1 - n + j])

C2_Witness ==
  /\ \E p \in 3..Len(conversation_history) : gens[turn_gen[p]].via = "executor"
  /\ \E p \in 3..Len(conversation_history) : gens[turn_gen[p]].via = "sync"

\* C3: the texts passed to speak_text, in order, are an order-preserving
\* subsequence of the texts appended to conversation_history.
C3_NarrationIsSubsequence == IsSubseq(Texts(spoken), Messages(conversation_history))

C3_Witness ==
  /\ Len(spoken) >= 2
  /\ Len(spoken) < Len(conversation_history) - 1

\* C4: at most one PlaybackTask is being narrated at any instant.
C4_AtMostOneNarrating == Cardinality(narrating) <= 1

C4_Witness ==
  /\ Len(spoken) >= 2
  /\ narrating = {spoken[2]}
  /\ tts_thread = "speaking"

\* C5: a turn that is the error marker of one persona is followed in the
\* log by the turn of the next persona in rotation.
C5_ErrorTurnThenNextSpeaker ==
  \A p \in 2..(Len(conversation_history) - 1) :
    conversation_history[p].message = ErrorMarker(conversation_history[p].bot)
      => \E i \in 0..(nbots - 1) :
           /\ conversation_history[p].bot = bots[i + 1]
           /\ conversation_history[p + 1].bot = bots[((i + 1) % nbots) + 1]

C5_Witness ==
  /\ nbots = 2
  /\ Len(conversation_history) >= 3
  /\ conversation_history[2] = [bot |-> "A", message |-> ErrorMarker("A")]
  /\ conversation_history[3].bot = "B"
  /\ IsSpeakable(conversation_history[3].message)

\* C6: every task put on the TTS queue is a non-empty reply of a persona
\* that is not an error marker and is in the log; the tasks in the queue and
\* the tasks passed to speak_text are among them.
C6_OnlySpeakableEnqueued ==
  /\ \A i \in 1..Len(enqueued) :
       /\ enqueued[i][1] # << >>
       /\ enqueued[i][1][1] # "[Error:"
       /\ enqueued[i][2] # Moderator
       /\ \E p \in 2..Len(conversation_history) :
            Line(conversation_history[p]) = <<enqueued[i][2], enqueued[i][1]>>
  /\ \A i \in 1..Len(spoken) : \E j \in 1..Len(enqueued) : spoken[i] = enqueued[j]
  /\ \A i \in 1..Len(tts_queue) :
       tts_queue[i] # None => \E j \in 1..Len(enqueued) : tts_queue[i] = enqueued[j]

C6_Witness ==
  /\ tts_enabled
  /\ Len(spoken) >= 1
  /\ \E p \in 2..Len(conversation_history) : conversation_history[p].message = << >>
  /\ \E p \in 2..Len(conversation_history) : StartsWithError(conversation_history[p].message)
  /\ pc = "done"

\* C7: the log is the Moderator seed followed by one turn per iteration, in
\* the order of the iterations, the k-th of them by persona (k-1) mod N.
C7_LogIsRoundRobin ==
  /\ conversation_history = << >> => pc \in {"add_topic", "uncaught"}
  /\ conversation_history # << >> => conversation_history[1] = ModeratorTurn
  /\ Len(conversation_history) \in {0, iterations + 1, iterations + 2}
  /\ pc = "loop_top" => Len(conversation_history) = iterations + 1
  /\ \A k \in 1..(Len(conversation_history) - 1) :
       /\ conversation_history[k + 1].bot = bots[((k - 1) % nbots) + 1]
       /\ turn_gen[k + 1] > turn_gen[k]
       /\ conversation_history[k + 1].message = gens[turn_gen[k + 1]].result

C7_Witness ==
  /\ nbots = 2
  /\ iterations = 3
  /\ \E p \in 3..Len(conversation_history) : gens[turn_gen[p]].via = "sync"
  /\ \E p \in 2..Len(conversation_history) : StartsWithError(conversation_history[p].message)

\* C8: once KeyboardInterrupt has been raised in the orchestrator,
\* conversation_history is never appended to again.
C8_NoAppendAfterInterrupt ==
  [][Interrupted => conversation_history' = conversation_history]_vars

C8_Witness ==
  /\ Interrupted
  /\ pc = "done"
  /\ future_response # 0
  /\ gens[future_response].state = "done"
  /\ \A p \in 1..Len(turn_gen) : turn_gen[p] # future_response

\* C9: after the interrupt the orchestrator is never held up by a
\* generation call in flight on the executor: with no call left to start,
\* it always has a next step until it has returned, whether or not the
\* running calls ever return.
C9_ReturnsWithoutGeneration ==
  (Interrupted /\ pc \notin {"done", "uncaught"} /\ work_queue = << >>)
    => ENABLED Orchestrator

\* C10: after the interrupt no generation call is started or begins
\* executing, and nothing is put on the TTS queue.
C10_NothingStartsAfterInterrupt ==
  [][Interrupted =>
       /\ Len(gens') = Len(gens)
       /\ \A g \in 1..Len(gens) : gens'[g].state = "running" => gens[g].state = "running"
       /\ enqueued' = enqueued]_vars

\* C11: when the consumer thread has exited, every task that was put on
\* the TTS queue has been passed to speak_text.
C11_ShutdownDrainsQueue == tts_thread = "exited" => Len(spoken) = Len(enqueued)

\* C12: with no persona configured start_discussion fails before the loop:
\* at the point of failure no Moderator turn has been appended, the TTS
\* worker has not been started and no generation has been requested.
C12_NoBotsFailsBeforeLoop ==
  (nbots = 0 /\ exc = "IndexError")
    => /\ conversation_history = << >>
       /\ tts_thread = "none"
       /\ ~tts_active
       /\ gens = << >>

\* C13: with TTS enabled, from the return of wait_for_tts_completion until
\* the orchestrator's next put, every task enqueued so far has been passed to
\* speak_text and has finished: none is queued, none is being narrated.
C13_WaitMeansDrained ==
  (tts_enabled /\ pc \in {"advance", "loop_top", "wait_future", "gen_sync",
                          "append", "queue_tts"})
    => /\ tts_queue = << >>
       /\ unfinished_tasks = 0
       /\ narrating = {}
       /\ tts_thread \in {"check", "get"}
       /\ Len(spoken) = Len(enqueued)

C13_Witness ==
  /\ tts_enabled
  /\ pc = "queue_tts"
  /\ Len(enqueued) >= 1
  /\ Len(spoken) = Len(enqueued)
  /\ IsSpeakable(response)

\* C14: a speak_text that raises is swallowed by the consumer.  The failed
\* task counts as consumed (unfinished_tasks is the number of tasks queued
\* or in speak_text, so a pending join returns), the consumer keeps running
\* while tts_active, every task taken from the queue has been passed to
\* speak_text in order, and no exception of the narrator is ever the one
\* propagating in the orchestrator.
C14_NarratorFailureSwallowed ==
  /\ tts_active =>
       /\ unfinished_tasks = Len(tts_queue)
                               + (IF tts_thread \in {"speak", "speaking"} THEN 1 ELSE 0)
       /\ tts_thread # "exited"
       /\ Len(spoken) + Len(tts_queue) = Len(enqueued)
  /\ tts_errors <= Len(spoken)
  /\ \A i \in 1..Len(spoken) : spoken[i] = enqueued[i]
  /\ exc \in {"none", "KeyboardInterrupt", "IndexError"}

C14_Witness ==
  /\ tts_errors = 1
  /\ Len(spoken) = 2
  /\ narrating = {spoken[2]}
  /\ tts_thread = "speaking"
  /\ tts_active
  /\ exc = "none"
\* C15: without an interrupt, with fair scheduling and every generation
\* and narration returning, the round-robin does not stall: every iteration
\* the loop can start gets through generation, append, narration enqueue,
\* pre-generation submit and drain wait to its index advance, and every
\* persona gets a turn appended.
C15_RoundRobinNeverStalls ==
  /\ (pc = "loop_top" /\ nbots > 0 /\ Len(gens) + 2 <= MaxGens) ~> (pc = "advance")
  /\ <>(\A i \in 1..nbots :
          \E p \in 2..Len(conversation_history) : conversation_history[p].bot = bots[i])

C15_Witness ==
  /\ nbots = 2
  /\ iterations = 2
  /\ exc = "none"
  /\ tts_errors >= 1
  /\ \E p \in 2..Len(conversation_history) : conversation_history[p].bot = "A"
  /\ \E p \in 2..Len(conversation_history) : conversation_history[p].bot = "B"

\* C18: stop_tts_thread is idempotent: in every state, a second call right
\* after a first one changes nothing the first one left, and once the
\* orchestrator has called it, a further call keeps tts_active false and
\* puts no further sentinel on the queue; it does not touch the consumer.
C18_StopIdempotent ==
  LET once == stop_tts_thread(tts_active, tts_queue, unfinished_tasks)
      twice == stop_tts_thread(once.tts_active, once.tts_queue, once.unfinished_tasks)
      again == stop_tts_thread(tts_active, tts_queue, unfinished_tasks)
  IN /\ twice = once
     /\ pc \in {"join_tts", "done"} =>
          /\ ~tts_active
          /\ again.tts_active = FALSE
          /\ again.tts_queue = tts_queue
          /\ again.unfinished_tasks = unfinished_tasks

C18_Witness ==
  /\ pc = "join_tts"
  /\ ~tts_active
  /\ Len(tts_queue) >= 2
  /\ tts_queue[Len(tts_queue)] = None
  /\ tts_thread # "exited"


\* C19: once stop_tts_thread has been called, a queue_tts call fails with
\* a queue-closed error and leaves the queue contents unchanged.
C19_EnqueueAfterShutdownFails ==
  (pc \in {"join_tts", "done"} /\ tts_enabled) =>
    \A b \in 1..nbots :
      LET after == queue_tts(tts_queue, unfinished_tasks, ReplyText(1), bots[b])
      IN /\ after.raised = "QueueClosedError"
         /\ after.tts_queue = tts_queue


\* C20: in every iteration the next speaker's generation is submitted after
\* the current turn was appended and enqueued for narration and before the
\* orchestrator waits for the narration to drain, and bot_index stays on
\* the current speaker until that wait has returned.
C20_SubmitBeforeDrainWait ==
  LET last == conversation_history[Len(conversation_history)]
      appended == /\ Len(conversation_history) >= 2
                  /\ last = [bot |-> bots[bot_index + 1], message |-> response]
      enqueued_turn == (tts_enabled /\ IsSpeakable(response)) =>
                          /\ Len(enqueued) >= 1
                          /\ enqueued[Len(enqueued)] = <<response, bots[bot_index + 1]>>
      submitted == \E g \in 1..Len(gens) :
                     /\ gens[g].via = "executor"
                     /\ gens[g].log_len = Len(conversation_history)
  IN /\ pc = "submit" => (appended /\ enqueued_turn /\ ~submitted)
     /\ pc = "wait_tts" =>
          /\ appended /\ enqueued_turn /\ submitted
          /\ future_response = Len(gens)
          /\ gens[future_response].via = "executor"
          /\ gens[future_response].log_len = Len(conversation_history)
     /\ pc = "advance" =>
          /\ appended /\ submitted
          /\ tts_enabled => unfinished_tasks = 0

C20_Witness ==
  /\ pc = "wait_tts"
  /\ iterations >= 1
  /\ tts_enabled
  /\ unfinished_tasks > 0
  /\ gens[future_response].state = "running"
  /\ gens[future_response].log_len = Len(conversation_history)


\* C16: in chat_tui.py the context behind every bot turn of the log was
\* computed from the log of all the entries that precede the turn, whatever
\* the interleaving of the worker with pause, topic update, resume, stop and
\* restart.
C16_TuiContextIsPriorLog ==
  \A p \in 1..Len(tui_history) :
    tui_history[p].bot # Moderator =>
      tui_turn_ctx[p] = [i \in 1..Len(LastEntries(SubSeq(tui_history, 1, p - 1))) |->
                           Line(LastEntries(SubSeq(tui_history, 1, p - 1))[i])]

IsMessageRecord(r) == r[1] = "message"
IsBotTurn(e) == e.bot # Moderator

\* C17: in chat_tui.py the message records of the session file are the
\* non-Moderator turns of conversation_history, one record per turn and in
\* the same order; no Moderator turn has a message record.
C17_LogFileMatchesBotTurns ==
  LET records == SelectSeq(tui_log_file, IsMessageRecord)
      turns == SelectSeq(tui_history, IsBotTurn)
  IN /\ Len(records) = Len(turns)
     /\ \A i \in 1..Len(turns) :
          records[i] = <<"message", turns[i].bot, turns[i].message>>
     /\ \A i \in 1..Len(records) : records[i][2] # Moderator

C17_Witness ==
  /\ Len(SelectSeq(tui_history, IsBotTurn)) >= 2
  /\ \E p \in 2..Len(tui_history) :
       /\ tui_history[p].bot = Moderator
       /\ p < Len(tui_history)
  /\ \E i \in 1..Len(tui_log_file) : tui_log_file[i][1] = "TOPIC UPDATE"
  /\ Len(SelectSeq(tui_log_file, IsMessageRecord)) >= 2


\* C21: only the first turn is generated by a call on the orchestrator
\* thread; the text of every later turn is the result of the pre-generation
\* submitted in the iteration before it, and while the loop runs every
\* pre-generation but the pending one is behind exactly one turn.
C21_OnlyFirstTurnSynchronous ==
  /\ \A g \in 1..Len(gens) : gens[g].via = "sync" => g = 1
  /\ \A p \in 3..Len(conversation_history) :
       /\ gens[turn_gen[p]].via = "executor"
       /\ gens[turn_gen[p]].log_len = p - 1
  /\ (pc = "loop_top" /\ ~Interrupted) =>
       \A g \in 1..Len(gens) :
         (gens[g].via = "executor" /\ g # future_response) =>
           Cardinality({p \in 1..Len(turn_gen) : turn_gen[p] = g}) = 1


\* C24: at the top of an iteration the pending pre-generation was started
\* for the persona at the current bot_index, and every reply in the log
\* stands under the name of the persona whose generation call produced it.
C24_PendingIsForCurrentSpeaker ==
  /\ (pc \in {"loop_top", "wait_future"} /\ future_response # 0) =>
       gens[future_response].bot = bots[bot_index + 1]
  /\ pc = "append" => gens[response_gen].bot = bots[bot_index + 1]
  /\ \A p \in 2..Len(conversation_history) :
       gens[turn_gen[p]].bot = conversation_history[p].bot

C24_Witness ==
  /\ nbots = 2
  /\ pc = "wait_future"
  /\ iterations = 2
  /\ bot_index = 0
  /\ gens[future_response].bot = "A"
  /\ conversation_history[3].bot = "B"
  /\ gens[turn_gen[3]].via = "executor"


\* C22: in chat_tui.py every start of the discussion from the stopped
\* state (neither running nor paused) appends, in the same handler and so
\* before the new worker reads a context, a Moderator turn that announces
\* the topic the discussion is started with.
C22_StartAnnouncesTopic ==
  [][(~is_running /\ ~is_paused /\ is_running') =>
       tui_history' = Append(tui_history,
                             [bot |-> Moderator, message |-> TopicMessage(topic')])]_vars


\* C23: in chat_tui.py, while _is_running is false (stopped or paused) no
\* bot turn is appended to conversation_history and bot_index does not
\* change; a generation in flight at the stop or pause appends nothing.
C23_NoBotTurnWhileStopped ==
  [][~is_running =>
       /\ tui_bot_index' = tui_bot_index
       /\ Len(tui_history') > Len(tui_history) =>
            tui_history'[Len(tui_history')].bot = Moderator]_vars


\* C25: in chat_tui.py the non-Moderator turns of the log follow the
\* circular persona order, the k-th of them by persona (k-1) mod N,
\* bot_index is the number of bot turns mod N, and at most one discussion
\* worker is alive, so at most one is between reading bot_index and
\* appending its turn.
C25_TuiRoundRobin ==
  LET turns == SelectSeq(tui_history, IsBotTurn)
  IN /\ \A k \in 1..Len(turns) : turns[k].bot = bots[((k - 1) % nbots) + 1]
     /\ nbots > 0 => tui_bot_index = Len(turns) % nbots
     /\ Len(workers) <= 1
     /\ \A w \in 1..Len(workers) :
          workers[w].pc = "generating" => workers[w].bot = bots[tui_bot_index + 1]

C25_Witness ==
  /\ nbots = 2
  /\ Len(SelectSeq(tui_history, IsBotTurn)) = 3
  /\ tui_history[Len(tui_history)].bot = "A"
  /\ \E p \in 2..Len(tui_history) : tui_history[p].bot = Moderator
  /\ tui_bot_index = 1
  /\ is_paused


\* C26: in chat_tui.py the flags _is_running and _is_paused are never both
\* true: the session is ready or stopped (false, false), running
\* (true, false) or paused (false, true).
C26_NeverRunningAndPaused ==
  /\ is_running \in BOOLEAN
  /\ is_paused \in BOOLEAN
  /\ ~(is_running /\ is_paused)

C26_Witness ==
  /\ is_running
  /\ ~is_paused
  /\ \E p \in 2..Len(tui_history) :
       tui_history[p] = [bot |-> Moderator, message |-> UpdateMessage("Y")]
  /\ \E w \in 1..Len(workers) : workers[w].pc = "generating"


====
